---- MODULE Spec2Model ----
(***************************************************************************)
(* Model of the autocomplete / spell-suggestion core:                      *)
(*   Trie (insert, insert_all, get_prefix_matches), levenshtein,           *)
(*   SpellSuggester (__init__, suggest) and handle_input.                  *)
(* Strings are sequences of character codes (ASCII): 32 is the space,      *)
(* 65..90 the upper-case letters, 97..122 the lower-case letters.          *)
(***************************************************************************)
EXTENDS Integers, Sequences, FiniteSets, TLC

VARIABLES trie, inserted, suggester, call, result, out, dist

vars == <<trie, inserted, suggester, call, result, out, dist>>

(***************************************************************************)
(* Bounds of the model.                                                    *)
(***************************************************************************)
MaxWordLen == 2      \* length of the words and prefixes given to insert and get_prefix_matches
MaxWords == 2        \* number of terminal nodes of a Trie
MaxBatch == 1        \* length of the list given to insert_all
MaxBatchWordLen == 1 \* length of the entries of that list
MaxLimit == 2        \* largest limit / top_k of a direct query
MaxLevLen == 4       \* length of the strings given to levenshtein
MaxVocabChars == 4   \* total length of the entries of a vocabulary list
MaxQueryLen == 3     \* length of the word given to suggest
MaxTextLen == 4      \* length of the raw text given to handle_input

Space == 32
Letters == {65, 97, 98}
LowerChars == {97, 98}
LevChars == {97, 98}
TextChars == {32, 97, 98}

Str(S, n) == UNION {[1..k -> S] : k \in 0..n}

Min2(a, b) == IF a <= b THEN a ELSE b
Max2(a, b) == IF a >= b THEN a ELSE b

(***************************************************************************)
(* Python string primitives used by the code.                              *)
(***************************************************************************)
lower(s) == [i \in 1..Len(s) |-> IF s[i] \in 65..90 THEN s[i] + 32 ELSE s[i]]

RECURSIVE lstrip(_)
lstrip(s) == IF s # <<>> /\ Head(s) = Space THEN lstrip(Tail(s)) ELSE s

RECURSIVE rstrip(_)
rstrip(s) ==
    IF s # <<>> /\ s[Len(s)] = Space THEN rstrip(SubSeq(s, 1, Len(s) - 1)) ELSE s

strip(s) == rstrip(lstrip(s))

\* text.split(): the maximal runs of non-whitespace characters, in order
RECURSIVE split_from(_, _, _)
split_from(s, cur, acc) ==
    IF s = <<>> THEN (IF cur = <<>> THEN acc ELSE Append(acc, cur))
    ELSE IF Head(s) = Space
         THEN split_from(Tail(s), <<>>, IF cur = <<>> THEN acc ELSE Append(acc, cur))
         ELSE split_from(Tail(s), Append(cur, Head(s)), acc)

split(s) == split_from(s, <<>>, <<>>)

\* seq[:k]
slice(seq, k) ==
    IF k >= 0 THEN SubSeq(seq, 1, Min2(k, Len(seq)))
    ELSE SubSeq(seq, 1, Max2(0, Len(seq) + k))

\* a < b on Python strings: lexicographic by character code
RECURSIVE str_less(_, _)
str_less(a, b) ==
    IF b = <<>> THEN FALSE
    ELSE IF a = <<>> THEN TRUE
    ELSE IF Head(a) # Head(b) THEN Head(a) < Head(b)
    ELSE str_less(Tail(a), Tail(b))

\* sorted(S, reverse=True)
RECURSIVE sorted_descending(_)
sorted_descending(S) ==
    IF S = {} THEN <<>>
    ELSE LET m == CHOOSE x \in S : \A y \in S : x >= y
         IN <<m>> \o sorted_descending(S \ {m})

\* sorted(S) for a set of character codes
RECURSIVE sorted(_)
sorted(S) ==
    IF S = {} THEN <<>>
    ELSE LET m == CHOOSE x \in S : \A y \in S : x <= y
         IN <<m>> \o sorted(S \ {m})

(***************************************************************************)
(* Trie.  A node is identified by the path of characters leading to it;    *)
(* the trie maps every existing node to its fields.                        *)
(***************************************************************************)
None == <<0 - 1>>

TrieNode == [children |-> {}, is_end_of_word |-> FALSE, word |-> None]

Trie == (<<>> :> TrieNode)

RECURSIVE insert_walk(_, _, _)
insert_walk(t, node, rest) ==
    IF rest = <<>> THEN [t |-> t, node |-> node]
    ELSE LET char == Head(rest)
             child == Append(node, char)
             t1 == IF char \in t[node].children
                   THEN t
                   ELSE [t EXCEPT ![node].children = @ \cup {char}] @@ (child :> TrieNode)
         IN insert_walk(t1, child, Tail(rest))

\* node.is_end_of_word = not node.is_end_of_word
insert_toggling(t, word) ==
    LET w == lower(word)
        r == insert_walk(t, <<>>, w)
    IN [r.t EXCEPT ![r.node].is_end_of_word = ~@, ![r.node].word = w]

insert(t, word) ==
    LET w == lower(word)
        r == insert_walk(t, <<>>, w)
    IN [r.t EXCEPT ![r.node].is_end_of_word = TRUE, ![r.node].word = w]

\* Search_Suggestions.py: blank entries are skipped
RECURSIVE insert_all(_, _)
insert_all(t, words) ==
    IF words = <<>> THEN t
    ELSE insert_all(IF strip(Head(words)) # <<>> THEN insert(t, Head(words)) ELSE t,
                    Tail(words))

\* Trie.py: every entry is inserted
RECURSIVE Trie_insert_all(_, _)
Trie_insert_all(t, words) ==
    IF words = <<>> THEN t
    ELSE Trie_insert_all(insert(t, Head(words)), Tail(words))

NotFound == <<0 - 2>>

\* the walk to the end of the prefix; NotFound when a character is absent
RECURSIVE find_node(_, _, _)
find_node(t, node, rest) ==
    IF rest = <<>> THEN node
    ELSE IF Head(rest) \notin t[node].children THEN NotFound
    ELSE find_node(t, Append(node, Head(rest)), Tail(rest))

RECURSIVE dfs(_, _, _, _, _)
RECURSIVE dfs_children(_, _, _, _, _, _)
dfs(t, n, current, res, limit) ==
    IF Len(res) >= limit THEN res
    ELSE dfs_children(t, n, current, sorted(t[n].children),
                      IF t[n].is_end_of_word THEN Append(res, current) ELSE res,
                      limit)

dfs_children(t, n, current, chs, res, limit) ==
    IF chs = <<>> THEN res
    ELSE dfs_children(t, n, current, Tail(chs),
                      dfs(t, Append(n, Head(chs)), Append(current, Head(chs)), res, limit),
                      limit)

get_prefix_matches(t, prefix, limit) ==
    LET p == lower(prefix)
        node == find_node(t, <<>>, p)
    IN IF node = NotFound THEN <<>>
       ELSE slice(dfs(t, node, p, <<>>, limit), limit)

(***************************************************************************)
(* levenshtein: the two-row dynamic programme.  Rows are 1-indexed here,   *)
(* so previous[j + 1] of the code is previous[j + 2] and so on.            *)
(***************************************************************************)
Min3(a, b, c) == Min2(a, Min2(b, c))

\* sub = previous[j] + 1
RECURSIVE lev_row_always_substituting(_, _, _, _, _)
lev_row_always_substituting(c1, s2, previous, current, j) ==
    IF j >= Len(s2) THEN current
    ELSE LET ins == previous[j + 2] + 1
             dele == current[j + 1] + 1
             sub == previous[j + 1] + 1
         IN lev_row_always_substituting(c1, s2, previous,
                                        Append(current, Min3(ins, dele, sub)), j + 1)

RECURSIVE lev_row(_, _, _, _, _)
lev_row(c1, s2, previous, current, j) ==
    IF j >= Len(s2) THEN current
    ELSE LET ins == previous[j + 2] + 1
             dele == current[j + 1] + 1
             sub == previous[j + 1] + (IF c1 # s2[j + 1] THEN 1 ELSE 0)
         IN lev_row(c1, s2, previous, Append(current, Min3(ins, dele, sub)), j + 1)

RECURSIVE lev_rows(_, _, _, _)
lev_rows(s1, s2, previous, i) ==
    IF i >= Len(s1) THEN previous
    ELSE lev_rows(s1, s2, lev_row(s1[i + 1], s2, previous, <<i + 1>>, 0), i + 1)

RECURSIVE levenshtein(_, _)
levenshtein(s1, s2) ==
    IF Len(s1) < Len(s2) THEN levenshtein(s2, s1)
    ELSE IF Len(s2) = 0 THEN Len(s1)
    ELSE LET last == lev_rows(s1, s2, [j \in 1..(Len(s2) + 1) |-> j - 1], 0)
         IN last[Len(last)]

(***************************************************************************)
(* SpellSuggester.  vocab is a Python set, so the loop that fills          *)
(* len_buckets visits it in an order the program does not control: order   *)
(* is that iteration order.  len_buckets is a defaultdict(list): reading a *)
(* missing key creates it, a membership test does not.                     *)
(***************************************************************************)
RECURSIVE fill_buckets(_, _)
fill_buckets(order, b) ==
    IF order = <<>> THEN b
    ELSE LET w == Head(order)
             k == Len(w)
         IN fill_buckets(Tail(order),
                         IF k \in DOMAIN b THEN [b EXCEPT ![k] = Append(@, w)]
                         ELSE b @@ (k :> <<w>>))

vocab_of(vocabulary) ==
    {lower(vocabulary[i]) : i \in {j \in 1..Len(vocabulary) : strip(vocabulary[j]) # <<>>}}

Orders(S) == {o \in [1..Cardinality(S) -> S] : \A w \in S : \E i \in DOMAIN o : o[i] = w}

SpellSuggester(vocabulary, max_dist, order) ==
    [constructed |-> TRUE,
     vocab |-> vocab_of(vocabulary),
     max_dist |-> max_dist,
     len_buckets |-> fill_buckets(order, <<>>)]

NoSuggester == [constructed |-> FALSE, vocab |-> {}, max_dist |-> 0, len_buckets |-> <<>>]

\* "for term in self.len_buckets[length]" without the membership test
bucket_terms_creating(b, length) ==
    IF length \notin DOMAIN b THEN [terms |-> <<>>, len_buckets |-> b @@ (length :> <<>>)]
    ELSE [terms |-> b[length], len_buckets |-> b]

\* lines "if length not in self.len_buckets: continue / for term in self.len_buckets[length]"
bucket_terms(b, length) ==
    IF length \notin DOMAIN b THEN [terms |-> <<>>, len_buckets |-> b]
    ELSE [terms |-> b[length], len_buckets |-> b]

RECURSIVE scan_terms(_, _, _, _)
scan_terms(terms, word, max_dist, candidates) ==
    IF terms = <<>> THEN candidates
    ELSE LET term == Head(terms)
         IN IF term # <<>> /\ term[1] # word[1]
            THEN scan_terms(Tail(terms), word, max_dist, candidates)
            ELSE LET d == levenshtein(word, term)
                 IN scan_terms(Tail(terms), word, max_dist,
                               IF d <= max_dist THEN Append(candidates, <<d, term>>)
                               ELSE candidates)

\* for length in range(max(1, wlen - 1), wlen + 2)
RECURSIVE scan_lengths(_, _, _, _, _, _)
scan_lengths(b, length, stop, word, max_dist, candidates) ==
    IF length >= stop THEN [candidates |-> candidates, len_buckets |-> b]
    ELSE LET r == bucket_terms(b, length)
         IN scan_lengths(r.len_buckets, length + 1, stop, word, max_dist,
                         scan_terms(r.terms, word, max_dist, candidates))

\* key=lambda x: x[0]
key_less_by_distance(x, y) == x[1] < y[1]

\* key=lambda x: (x[0], x[1])
key_less(x, y) == x[1] < y[1] \/ (x[1] = y[1] /\ str_less(x[2], y[2]))

\* list.sort is stable: an element goes after every element that is not greater
RECURSIVE sort_insert(_, _)
sort_insert(sortedc, x) ==
    IF sortedc = <<>> THEN <<x>>
    ELSE IF key_less(x, Head(sortedc)) THEN <<x>> \o sortedc
    ELSE <<Head(sortedc)>> \o sort_insert(Tail(sortedc), x)

RECURSIVE sort_candidates(_, _)
sort_candidates(candidates, acc) ==
    IF candidates = <<>> THEN acc
    ELSE sort_candidates(Tail(candidates), sort_insert(acc, Head(candidates)))

\* "if not word: return []" without the test for a known word
suggest_without_known_test(s, word0, top_k) ==
    LET word == strip(lower(word0))
    IN IF word = <<>>
       THEN [ret |-> <<>>, len_buckets |-> s.len_buckets]
       ELSE LET wlen == Len(word)
                r == scan_lengths(s.len_buckets, Max2(1, wlen - 1), wlen + 2,
                                  word, s.max_dist, <<>>)
                c == sort_candidates(r.candidates, <<>>)
            IN [ret |-> slice([i \in 1..Len(c) |-> c[i][2]], top_k),
                len_buckets |-> r.len_buckets]

suggest(s, word0, top_k) ==
    LET word == strip(lower(word0))
    IN IF word = <<>> \/ word \in s.vocab
       THEN [ret |-> <<>>, len_buckets |-> s.len_buckets]
       ELSE LET wlen == Len(word)
                r == scan_lengths(s.len_buckets, Max2(1, wlen - 1), wlen + 2,
                                  word, s.max_dist, <<>>)
                c == sort_candidates(r.candidates, <<>>)
            IN [ret |-> slice([i \in 1..Len(c) |-> c[i][2]], top_k),
                len_buckets |-> r.len_buckets]

(***************************************************************************)
(* handle_input.  The printing is left out; the record tells which of the  *)
(* two indexes were queried and what they answered.                        *)
(***************************************************************************)
completionLimit == 6
defaultMaxDist == 2
correctionTopK == 3
minWordLength == 3

\* the condition without the length test
should_correct_any_length(text, last_word) ==
    text = <<>> \/ text[Len(text)] # Space

\* the condition of "2. Spell suggestion only if it looks like a finished word"
should_correct(text, last_word) ==
    Len(last_word) >= minWordLength /\ (text = <<>> \/ text[Len(text)] # Space)

handle_input(text0, t, s) ==
    LET text == strip(text0)
        words == split(text)
        last_word == IF words # <<>> THEN words[Len(words)] ELSE <<>>
        auto_suggestions == get_prefix_matches(t, last_word, completionLimit)
        spell == suggest(s, last_word, correctionTopK)
    IN IF text = <<>>
       THEN [returned_early |-> TRUE, last_word |-> <<>>,
             called_get_prefix_matches |-> FALSE, auto_suggestions |-> <<>>,
             called_suggest |-> FALSE, spell_suggestions |-> <<>>,
             len_buckets |-> s.len_buckets]
       ELSE IF should_correct(text, last_word)
       THEN [returned_early |-> FALSE, last_word |-> last_word,
             called_get_prefix_matches |-> TRUE, auto_suggestions |-> auto_suggestions,
             called_suggest |-> TRUE, spell_suggestions |-> spell.ret,
             len_buckets |-> spell.len_buckets]
       ELSE [returned_early |-> FALSE, last_word |-> last_word,
             called_get_prefix_matches |-> TRUE, auto_suggestions |-> auto_suggestions,
             called_suggest |-> FALSE, spell_suggestions |-> <<>>,
             len_buckets |-> s.len_buckets]

(***************************************************************************)
(* State machine.  call is the operation in progress with its arguments,   *)
(* result, out and dist hold what get_prefix_matches / suggest,            *)
(* handle_input and levenshtein returned to the caller; Return is the      *)
(* caller taking the value.  inserted is the set of lower-cased words that *)
(* insert has been called with; the n of an insert call is 1 when its     *)
(* word had been inserted before.                                          *)
(***************************************************************************)
NoOut ==
    [returned_early |-> TRUE, last_word |-> <<>>,
     called_get_prefix_matches |-> FALSE, auto_suggestions |-> <<>>,
     called_suggest |-> FALSE, spell_suggestions |-> <<>>, len_buckets |-> <<>>]

Call(op, word, words, n) == [op |-> op, word |-> word, words |-> words, n |-> n]

NoCall == Call("none", <<>>, <<>>, 0)

Idle == call.op = "none"

Lists(S, n) == UNION {[1..k -> S] : k \in 0..n}

\* a word pool: the strings over Letters, and the blank string " "
Words(n) == Str(Letters, n) \cup {<<Space>>}

\* the query pool: the strings over Letters, some with a space around them
Queries(n) ==
    Str(Letters, n)
    \cup {<<Space>> \o w : w \in Str(LowerChars, n - 1)}
    \cup {w \o <<Space>> : w \in Str(LowerChars, n - 1)}

\* the vocabulary lists over the pool S whose entries have at most n
\* characters in total (an empty entry counts for one)
RECURSIVE VocabLists(_, _)
VocabLists(S, n) ==
    {<<>>} \cup
    UNION {{<<w>> \o rest : rest \in VocabLists(S, n - Max2(1, Len(w)))} :
              w \in {x \in S : Max2(1, Len(x)) <= n}}

NumWords(t) == Cardinality({n \in DOMAIN t : t[n].is_end_of_word})

Init ==
    /\ trie = Trie
    /\ inserted = {}
    /\ suggester = NoSuggester
    /\ call = NoCall
    /\ result = <<>>
    /\ out = NoOut
    /\ dist = 0

Return ==
    /\ ~Idle
    /\ call' = NoCall
    /\ result' = <<>>
    /\ out' = NoOut
    /\ dist' = 0
    /\ UNCHANGED <<trie, inserted, suggester>>

Insert ==
    /\ Idle
    /\ \E w \in Words(MaxWordLen) :
        LET t2 == insert(trie, w)
        IN /\ NumWords(t2) <= MaxWords
           /\ trie' = t2
           /\ inserted' = inserted \cup {lower(w)}
           /\ call' = Call("insert", w, <<>>, IF lower(w) \in inserted THEN 1 ELSE 0)
           /\ UNCHANGED <<suggester, result, out, dist>>

InsertAll ==
    /\ Idle
    /\ \E ws \in Lists(Words(MaxBatchWordLen), MaxBatch) :
        LET t2 == insert_all(trie, ws)
        IN /\ NumWords(t2) <= MaxWords
           /\ trie' = t2
           /\ inserted' = inserted \cup
                  {lower(ws[i]) : i \in {j \in 1..Len(ws) : strip(ws[j]) # <<>>}}
           /\ call' = Call("insert_all", <<>>, ws, 0)
           /\ UNCHANGED <<suggester, result, out, dist>>

TrieInsertAll ==
    /\ Idle
    /\ \E ws \in Lists(Words(MaxBatchWordLen), MaxBatch) :
        LET t2 == Trie_insert_all(trie, ws)
        IN /\ NumWords(t2) <= MaxWords
           /\ trie' = t2
           /\ inserted' = inserted \cup {lower(ws[i]) : i \in 1..Len(ws)}
           /\ call' = Call("Trie_insert_all", <<>>, ws, 0)
           /\ UNCHANGED <<suggester, result, out, dist>>

GetPrefixMatches ==
    /\ Idle
    /\ \E p \in Words(MaxWordLen), limit \in 0..MaxLimit :
        /\ result' = get_prefix_matches(trie, p, limit)
        /\ call' = Call("get_prefix_matches", p, <<>>, limit)
        /\ UNCHANGED <<trie, inserted, suggester, out, dist>>

TrieNext == Insert \/ InsertAll \/ TrieInsertAll \/ GetPrefixMatches \/ Return

TrieSpec == Init /\ [][TrieNext]_vars

Levenshtein ==
    /\ Idle
    /\ \E a \in Str(LevChars, MaxLevLen), b \in Str(LevChars, MaxLevLen) :
        /\ dist' = levenshtein(a, b)
        /\ call' = Call("levenshtein", a, <<b>>, 0)
        /\ UNCHANGED <<trie, inserted, suggester, result, out>>

LevNext == Levenshtein \/ Return

LevSpec == Init /\ [][LevNext]_vars

Construct ==
    /\ Idle
    /\ ~suggester.constructed
    /\ \E vocabulary \in VocabLists(Words(MaxVocabChars), MaxVocabChars),
          max_dist \in (0 - 1)..defaultMaxDist :
        \E order \in Orders(vocab_of(vocabulary)) :
            /\ suggester' = SpellSuggester(vocabulary, max_dist, order)
            /\ call' = Call("SpellSuggester", <<>>, vocabulary, max_dist)
            /\ UNCHANGED <<trie, inserted, result, out, dist>>

Suggest ==
    /\ Idle
    /\ suggester.constructed
    /\ \E word \in Queries(MaxQueryLen), top_k \in 0..MaxLimit :
        LET r == suggest(suggester, word, top_k)
        IN /\ result' = r.ret
           /\ suggester' = [suggester EXCEPT !.len_buckets = r.len_buckets]
           /\ call' = Call("suggest", word, <<>>, top_k)
           /\ UNCHANGED <<trie, inserted, out, dist>>

SpellNext == Construct \/ Suggest \/ Return

SpellSpec == Init /\ [][SpellNext]_vars

\* the __main__ block: both indexes are built from one vocabulary
Build ==
    /\ Idle
    /\ ~suggester.constructed
    /\ \E vocabulary \in VocabLists(Str(LowerChars, MaxVocabChars), MaxVocabChars) :
        \E order \in Orders(vocab_of(vocabulary)) :
            /\ trie' = insert_all(trie, vocabulary)
            /\ inserted' = inserted \cup vocab_of(vocabulary)
            /\ suggester' = SpellSuggester(vocabulary, defaultMaxDist, order)
            /\ call' = Call("build", <<>>, vocabulary, defaultMaxDist)
            /\ UNCHANGED <<result, out, dist>>

HandleInput ==
    /\ Idle
    /\ suggester.constructed
    /\ \E text \in Str(TextChars, MaxTextLen) :
        LET r == handle_input(text, trie, suggester)
        IN /\ out' = r
           /\ suggester' = [suggester EXCEPT !.len_buckets = r.len_buckets]
           /\ call' = Call("handle_input", text, <<>>, 0)
           /\ UNCHANGED <<trie, inserted, result, dist>>

Next == Build \/ HandleInput \/ GetPrefixMatches \/ Suggest \/ Return

Spec == Init /\ [][Next]_vars

(***************************************************************************)
(* Definitions the properties are stated with.                             *)
(***************************************************************************)
IsPrefix(p, w) == Len(p) <= Len(w) /\ \A i \in 1..Len(p) : p[i] = w[i]

\* a comes strictly before b in lexicographic order
LexLess(a, b) ==
    \/ Len(a) < Len(b) /\ IsPrefix(a, b)
    \/ \E i \in 1..Min2(Len(a), Len(b)) :
           /\ a[i] < b[i]
           /\ \A k \in 1..(i - 1) : a[k] = b[k]

RECURSIVE Ascending(_)
Ascending(S) ==
    IF S = {} THEN <<>>
    ELSE LET m == CHOOSE x \in S : \A y \in S \ {x} : LexLess(x, y)
         IN <<m>> \o Ascending(S \ {m})

Take(seq, k) == [i \in 1..Min2(k, Len(seq)) |-> seq[i]]

NoDuplicates(seq) == \A i, j \in 1..Len(seq) : i # j => seq[i] # seq[j]

\* the strings one insertion, deletion or substitution away from s
OneEdit(s, n) ==
    {[i \in 1..(Len(s) - 1) |-> IF i < k THEN s[i] ELSE s[i + 1]] : k \in 1..Len(s)}
    \cup {[s EXCEPT ![k] = c] : k \in 1..Len(s), c \in LevChars}
    \cup (IF Len(s) >= n THEN {}
          ELSE {[i \in 1..(Len(s) + 1) |->
                    IF i <= k THEN s[i] ELSE IF i = k + 1 THEN c ELSE s[i - 1]] :
                    k \in 0..Len(s), c \in LevChars})

\* the least number of edits that turn a into b (breadth-first over strings)
RECURSIVE EditsFrom(_, _, _, _)
EditsFrom(reach, b, k, n) ==
    IF b \in reach THEN k
    ELSE EditsFrom(reach \cup UNION {OneEdit(s, n) : s \in reach}, b, k + 1, n)

MinEdits(a, b) == EditsFrom({a}, b, 0, Max2(Len(a), Len(b)) + 1)

\* the lower-cased, trimmed query of the suggest call in progress
Query == strip(lower(call.word))

\* the vocabulary words suggest may return for q
Eligible(q) ==
    {w \in suggester.vocab :
        /\ Len(w) - Len(q) \in {0 - 1, 0, 1}
        /\ w[1] = q[1]
        /\ levenshtein(q, w) <= suggester.max_dist}

RECURSIVE Ranked(_, _)
Ranked(S, q) ==
    IF S = {} THEN <<>>
    ELSE LET m == CHOOSE x \in S : \A y \in S \ {x} :
                      \/ levenshtein(q, x) < levenshtein(q, y)
                      \/ levenshtein(q, x) = levenshtein(q, y) /\ LexLess(x, y)
         IN <<m>> \o Ranked(S \ {m}, q)

\* the last whitespace-delimited token of a text: its longest space-free
\* suffix once the trailing spaces are dropped
ActiveToken(text) ==
    LET t == rstrip(text)
        starts == {i \in 1..(Len(t) + 1) : \A k \in i..Len(t) : t[k] # Space}
        first == CHOOSE i \in starts : \A k \in starts : i <= k
    IN [i \in 1..(Len(t) + 1 - first) |-> t[first + i - 1]]

(***************************************************************************)
(* Properties.                                                             *)
(***************************************************************************)

\* C1: when the raw text given to handle_input ends in a space, suggest is
\* not queried and the correction list is empty.
C1_TrailingSpaceSuppressesCorrection ==
    (call.op = "handle_input" /\ call.word # <<>> /\ call.word[Len(call.word)] = Space)
        => (~out.called_suggest /\ out.spell_suggestions = <<>>)

\* C2: get_prefix_matches(p, limit) returns the first min(limit, n) elements
\* of the ascending list of the n inserted lower-cased words that start with
\* lower(p).
C2_PrefixMatchesAreSortedPrefixOfInserted ==
    call.op = "get_prefix_matches" =>
        result = Take(Ascending({w \in inserted : IsPrefix(lower(call.word), w)}), call.n)

C2_Witness ==
    /\ call.op = "get_prefix_matches"
    /\ call.word = <<65>>
    /\ call.n = 1
    /\ result = <<(<<97>>)>>
    /\ Cardinality({w \in inserted : IsPrefix(<<97>>, w)}) = 2

\* C3: every terminal node of the trie stores a lower-case, non-empty word,
\* and the root is never terminal.
C3_TerminalWordsNonEmpty ==
    /\ \A n \in DOMAIN trie :
           trie[n].is_end_of_word =>
               (trie[n].word # <<>> /\ trie[n].word = lower(trie[n].word))
    /\ ~trie[<<>>].is_end_of_word

\* C4: for a non-empty query q that is not in the vocabulary, suggest returns
\* the first top_k of the eligible words (length within 1, same first
\* character, distance <= max_dist) ranked by (distance, term).
C4_SuggestReturnsRankedEligible ==
    (call.op = "suggest" /\ Query # <<>> /\ Query \notin suggester.vocab)
        => result = Take(Ranked(Eligible(Query), Query), call.n)

C4_Witness ==
    /\ call.op = "suggest"
    /\ Query # <<>>
    /\ Query # call.word
    /\ Query \notin suggester.vocab
    /\ Cardinality(Eligible(Query)) = 2
    /\ \E x, y \in Eligible(Query) : x # y /\ levenshtein(Query, x) = levenshtein(Query, y)
    /\ call.n = 1
    /\ Len(result) = 1

\* C5: levenshtein(a, b) is the least number of insertions, deletions and
\* substitutions that turn a into b; it is symmetric, 0 on equal strings and
\* len(a) against the empty string.
C5_LevenshteinIsMinimumEdits ==
    call.op = "levenshtein" =>
        LET a == call.word
            b == call.words[1]
        IN /\ dist = MinEdits(a, b)
           /\ dist = levenshtein(b, a)
           /\ (a = b => dist = 0)
           /\ (b = <<>> => dist = Len(a))

C5_Witness ==
    /\ call.op = "levenshtein"
    /\ call.word # <<>>
    /\ Len(call.word) < Len(call.words[1])
    /\ dist = 2

\* C6: suggest returns the empty sequence when the lower-cased, trimmed query
\* is empty or is in the vocabulary.
C6_NoSuggestionForEmptyOrKnown ==
    (call.op = "suggest" /\ (Query = <<>> \/ Query \in suggester.vocab))
        => result = <<>>

C6_Witness ==
    /\ call.op = "suggest"
    /\ Query \in suggester.vocab
    /\ Query # call.word
    /\ call.n > 0
    /\ Eligible(Query) \ {Query} # {}
    /\ result = <<>>

\* C7: inserting a word that has been inserted before leaves the trie as it
\* is, and no result of get_prefix_matches holds a word twice.
C7_InsertIsIdempotent ==
    [][/\ (call'.op = "insert" /\ call'.n = 1) => trie' = trie
       /\ call'.op = "get_prefix_matches" => NoDuplicates(result')]_vars

C7_Witness ==
    /\ call.op = "insert"
    /\ call.n = 1
    /\ call.word # lower(call.word)
    /\ trie[lower(call.word)].children # {}

\* C8: for a non-blank input whose active token has length 0, 1 or 2,
\* handle_input does not call suggest and the correction list is empty, while
\* get_prefix_matches is called on that token.
C8_ShortTokenIsNotCorrected ==
    (call.op = "handle_input" /\ strip(call.word) # <<>>
                              /\ Len(ActiveToken(call.word)) <= 2)
        => /\ ~out.called_suggest
           /\ out.spell_suggestions = <<>>
           /\ out.called_get_prefix_matches
           /\ out.auto_suggestions =
                  get_prefix_matches(trie, ActiveToken(call.word), completionLimit)

C8_Witness ==
    /\ call.op = "handle_input"
    /\ Len(split(call.word)) = 2
    /\ Len(ActiveToken(call.word)) = 2
    /\ out.auto_suggestions # <<>>
    /\ suggest(suggester, ActiveToken(call.word), correctionTopK).ret # <<>>
    /\ ~out.called_suggest

\* C9: no SpellSuggester with a negative max_dist is ever constructed.
C9_NegativeMaxDistRejected ==
    suggester.constructed => suggester.max_dist >= 0

\* C10: get_prefix_matches leaves the trie unchanged, suggest leaves vocab,
\* max_dist and len_buckets unchanged, and so does handle_input, which calls
\* both; asking the same query again returns the same result.
C10_QueriesDoNotMutate ==
    [][/\ call'.op = "get_prefix_matches" =>
              /\ trie' = trie /\ suggester' = suggester
              /\ get_prefix_matches(trie', call'.word, call'.n) = result'
       /\ call'.op = "suggest" =>
              /\ trie' = trie /\ suggester' = suggester
              /\ DOMAIN suggester'.len_buckets = DOMAIN suggester.len_buckets
              /\ suggest(suggester', call'.word, call'.n).ret = result'
       /\ call'.op = "handle_input" =>
              /\ trie' = trie /\ suggester' = suggester]_vars

C10_Witness ==
    /\ call.op = "suggest"
    /\ result # <<>>
    /\ \E k \in {Len(Query) - 1, Len(Query), Len(Query) + 1} :
           k >= 1 /\ k \notin DOMAIN suggester.len_buckets

====
